---- MODULE Spec2Model ----
(***************************************************************************)
(* knowsql: a line-based key-value server.                                 *)
(*   crates/knowsql_parser/src/lib.rs  parse_command and its sub-parsers   *)
(*   knowsql/src/main.rs               handle_client, one thread per       *)
(*                                     connection, one Mutex<BitCask>      *)
(* Text is modelled as sequences of one-character strings.                 *)
(***************************************************************************)
EXTENDS Integers, Sequences, FiniteSets, TLC

VARIABLES
    line,       \* parser harness: the &str handed to parse_command
    result,     \* parser harness: what parse_command returned for it
    store,      \* the BitCask behind the mutex: key -> value, or Absent
    lock,       \* the session holding the MutexGuard, or NoSession
    poisoned,   \* the Mutex's poison flag
    pc,         \* per session: position in handle_client
    command,    \* per session: what parse_command(&buf) returned for the line read
    pending,    \* per session: the bytes the next write_all sends
    out,        \* per session: the reply lines written to the stream so far
    nread,      \* per session: number of read_line calls that returned
    sawEof,     \* per session: the stream is at end of file (the client closed)
    incrPuts,   \* history: per key, the values Increment has put, in order
    incrSent,   \* history: per key, the values Increment has replied, in order
    setKeys,    \* history: the keys a Set has put
    acked       \* history: per key, the value of the Set acknowledged with OK
                \* that is still the last write to the key, or NoValue

parserVars == <<line, result>>
serverVars == <<store, lock, poisoned, pc, command, pending, out, nread, sawEof,
                incrPuts, incrSent, setKeys, acked>>
vars == <<line, result, store, lock, poisoned, pc, command, pending, out,
          nread, sawEof, incrPuts, incrSent, setKeys, acked>>

-----------------------------------------------------------------------------
(* Characters *)

LowerSeq == <<"a","b","c","d","e","f","g","h","i","j","k","l","m",
              "n","o","p","q","r","s","t","u","v","w","x","y","z">>
UpperSeq == <<"A","B","C","D","E","F","G","H","I","J","K","L","M",
              "N","O","P","Q","R","S","T","U","V","W","X","Y","Z">>
DigitSeq == <<"0","1","2","3","4","5","6","7","8","9">>

Range(f) == {f[i] : i \in DOMAIN f}

\* char::to_lowercase on the ASCII range
to_lowercase(c) ==
    IF \E i \in DOMAIN UpperSeq : UpperSeq[i] = c
    THEN LowerSeq[CHOOSE i \in DOMAIN UpperSeq : UpperSeq[i] = c]
    ELSE c

\* nom's AsChar::is_alphanum for char: ASCII letter or decimal digit
is_alphanum(c) == c \in Range(LowerSeq) \cup Range(UpperSeq) \cup Range(DigitSeq)

Drop(input, n) == SubSeq(input, n + 1, Len(input))
Take(input, n) == SubSeq(input, 1, n)

-----------------------------------------------------------------------------
(* nom combinators, as parse results [ok, rest, val] *)

Fail == [ok |-> FALSE]
Ok(rest, val) == [ok |-> TRUE, rest |-> rest, val |-> val]

\* bytes::complete::tag: the input must start with exactly t
tag(t, input) ==
    IF Len(input) >= Len(t) /\ \A i \in 1..Len(t) : input[i] = t[i]
    THEN Ok(Drop(input, Len(t)), t)
    ELSE Fail

\* a keyword matched as written, without lowercasing either side
tag_no_case_exact(t, input) ==
    IF Len(input) >= Len(t) /\ \A i \in 1..Len(t) : input[i] = t[i]
    THEN Ok(Drop(input, Len(t)), Take(input, Len(t)))
    ELSE Fail

\* bytes::complete::tag_no_case: as tag, comparing lowercased characters
tag_no_case(t, input) ==
    IF Len(input) >= Len(t)
       /\ \A i \in 1..Len(t) : to_lowercase(input[i]) = to_lowercase(t[i])
    THEN Ok(Drop(input, Len(t)), Take(input, Len(t)))
    ELSE Fail

\* character::complete::alphanumeric1: the longest non-empty alphanumeric prefix
alphanumeric1(input) ==
    LET n == CHOOSE m \in 0..Len(input) :
                 /\ \A i \in 1..m : is_alphanum(input[i])
                 /\ (m < Len(input) => ~is_alphanum(input[m + 1]))
    IN  IF n = 0 THEN Fail ELSE Ok(Drop(input, n), Take(input, n))

parse_key(input) == alphanumeric1(input)

parse_value(input) == alphanumeric1(input)

KeyValue(key, value) == [key |-> key, value |-> value]

\* the `?` after a parser call: a failure returns at once, a success goes on
\* with the parser's result
Then(r, F(_)) == CHOOSE y \in { IF x.ok THEN F(x) ELSE Fail : x \in {r} } : TRUE

\* one step of branch::alt: the first parser's success, else the next parser
OrElse(r, next) == CHOOSE y \in { IF x.ok THEN x ELSE next : x \in {r} } : TRUE

\* sequence::separated_pair(parse_key, tag(" "), parse_value)
separated_pair(input) ==
    Then(parse_key(input), LAMBDA k :
    Then(tag(<<" ">>, k.rest), LAMBDA sp :
    Then(parse_value(sp.rest), LAMBDA v :
    Ok(v.rest, KeyValue(k.val, v.val)))))

\* the loop of multi::separated_list1(tag(" "), separated_pair(..)) after the
\* first element: a failing separator, or a failing element after a
\* separator, ends the list with the input as it was before the separator
RECURSIVE separated_list_rest(_, _)
separated_list_rest(input, acc) ==
    CHOOSE y \in
        { IF ~sp.ok THEN Ok(input, acc)
          ELSE CHOOSE z \in
                 { IF ~e.ok THEN Ok(input, acc)
                   ELSE separated_list_rest(e.rest, Append(acc, e.val)) :
                   e \in {separated_pair(sp.rest)} } : TRUE :
          sp \in {tag(<<" ">>, input)} } : TRUE

separated_list1(input) ==
    Then(separated_pair(input), LAMBDA e :
    separated_list_rest(e.rest, <<e.val>>))

-----------------------------------------------------------------------------
(* Command and the six parsers *)

Get(key) == [type |-> "Get", key |-> key]
Set(kv) == [type |-> "Set", kv |-> kv]
MSet(kvs) == [type |-> "MSet", kvs |-> kvs]
Increment(key) == [type |-> "Increment", key |-> key]
List == [type |-> "List"]
Exit == [type |-> "Exit"]
None == [type |-> "None"]

parse_set(input) ==
    Then(tag_no_case(<<"s","e","t"," ">>, input), LAMBDA t :
    Then(parse_key(t.rest), LAMBDA k :
    Then(tag(<<" ">>, k.rest), LAMBDA sp :
    Then(parse_value(sp.rest), LAMBDA v :
    Ok(v.rest, Set(KeyValue(k.val, v.val)))))))

parse_mset(input) ==
    Then(tag_no_case(<<"m","s","e","t"," ">>, input), LAMBDA t :
    Then(separated_list1(t.rest), LAMBDA l :
    Ok(l.rest, MSet(l.val))))

parse_get(input) ==
    Then(tag_no_case(<<"g","e","t"," ">>, input), LAMBDA t :
    Then(parse_key(t.rest), LAMBDA k :
    Ok(k.rest, Get(k.val))))

parse_increment(input) ==
    Then(tag_no_case(<<"i","n","c","r"," ">>, input), LAMBDA t :
    Then(parse_key(t.rest), LAMBDA k :
    Ok(k.rest, Increment(k.val))))

parse_list(input) ==
    Then(tag_no_case(<<"l","i","s","t">>, input), LAMBDA t :
    Ok(t.rest, List))

parse_exit(input) ==
    Then(tag_no_case(<<"e","x","i","t">>, input), LAMBDA t :
    Ok(t.rest, Exit))

\* branch::alt over the six parsers in the order of the tuple: first success
alt(input) ==
    OrElse(parse_get(input),
    OrElse(parse_set(input),
    OrElse(parse_mset(input),
    OrElse(parse_increment(input),
    OrElse(parse_list(input),
    parse_exit(input))))))

\* Ok((_, command)) => Some(command): whatever input is left is dropped
parse_command(input) ==
    CHOOSE c \in { IF r.ok THEN r.val ELSE None : r \in {alt(input)} } : TRUE

-----------------------------------------------------------------------------
(* The lines handed to parse_command: an optional leading space, a keyword  *)
(* in some case (or a word that is no keyword), up to MaxArgs tokens joined *)
(* by single spaces, and an optional trailing character.                    *)

MaxArgs == 4

Keywords == { <<"g","e","t">>, <<"G","E","t">>,
              <<"s","e","t">>, <<"S","e","T">>,
              <<"m","s","e","t">>, <<"M","s","E","t">>,
              <<"i","n","c","r">>, <<"I","N","C","R">>,
              <<"l","i","s","t">>, <<"L","I","S","T">>,
              <<"e","x","i","t">>, <<"e","X","I","T">>,
              <<"i","n","v","a","l","i","d">> }

Tokens == { <<"k">>, <<"K">>, <<"v","1">> }

Prefixes == { <<>>, <<" ">> }

Suffixes == { <<>>, <<"\n">>, <<" ">>, <<"!">> }

ArgLists == UNION { [1..n -> Tokens] : n \in 0..MaxArgs }

RECURSIVE JoinArgs(_)
JoinArgs(args) ==
    IF args = <<>> THEN <<>>
    ELSE <<" ">> \o Head(args) \o JoinArgs(Tail(args))

ParseLines ==
    { p \o k \o JoinArgs(a) \o s :
        p \in Prefixes, k \in Keywords, a \in ArgLists, s \in Suffixes }

Unparsed == [type |-> "Unparsed"]

\* one call of parse_command(&line)
Parse ==
    /\ result = Unparsed
    /\ result' = parse_command(line)
    /\ UNCHANGED <<line, serverVars>>

-----------------------------------------------------------------------------
(* isize and its text form.  isize is IsizeBits wide here.                  *)

IsizeBits == 5

RECURSIVE Pow2(_)
Pow2(n) == IF n = 0 THEN 1 ELSE 2 * Pow2(n - 1)

IsizeMax == Pow2(IsizeBits - 1) - 1
IsizeMin == 0 - Pow2(IsizeBits - 1)

DigitValue(c) == (CHOOSE i \in DOMAIN DigitSeq : DigitSeq[i] = c) - 1

RECURSIVE DigitsValue(_)
DigitsValue(ds) ==
    IF ds = <<>> THEN 0
    ELSE 10 * DigitsValue(Take(ds, Len(ds) - 1)) + DigitValue(ds[Len(ds)])

\* str::parse::<isize>(): an optional sign, then one or more decimal digits,
\* and the number must fit; anything else is Err
\* a parse that reads text that is no number as zero
parse_isize_or_zero(v) ==
    LET signed == v # <<>> /\ v[1] \in {"+", "-"}
        ds == IF signed THEN Tail(v) ELSE v
        n == IF signed /\ v[1] = "-" THEN 0 - DigitsValue(ds) ELSE DigitsValue(ds)
    IN  IF ds # <<>> /\ (\A i \in DOMAIN ds : ds[i] \in Range(DigitSeq))
           /\ n >= IsizeMin /\ n <= IsizeMax
        THEN [ok |-> TRUE, val |-> n]
        ELSE [ok |-> TRUE, val |-> 0]

parse_isize(v) ==
    LET signed == v # <<>> /\ v[1] \in {"+", "-"}
        ds == IF signed THEN Tail(v) ELSE v
        n == IF signed /\ v[1] = "-" THEN 0 - DigitsValue(ds) ELSE DigitsValue(ds)
    IN  IF ds # <<>> /\ (\A i \in DOMAIN ds : ds[i] \in Range(DigitSeq))
           /\ n >= IsizeMin /\ n <= IsizeMax
        THEN [ok |-> TRUE, val |-> n]
        ELSE [ok |-> FALSE]

RECURSIVE NatToString(_)
NatToString(n) ==
    IF n < 10 THEN <<DigitSeq[n + 1]>>
    ELSE NatToString(n \div 10) \o <<DigitSeq[(n % 10) + 1]>>

\* isize::to_string()
to_string(n) == IF n < 0 THEN <<"-">> \o NatToString(0 - n) ELSE NatToString(n)

-----------------------------------------------------------------------------
(* The store behind the mutex: BitCask's get, put and list_keys *)

\* BitCask::get: Option<String>
get(cask, key) ==
    IF key \in DOMAIN cask THEN [some |-> TRUE, val |-> cask[key]]
    ELSE [some |-> FALSE]

\* BitCask::put when it returns Ok
put(cask, key, value) ==
    [k \in DOMAIN cask \cup {key} |-> IF k = key THEN value ELSE cask[k]]

Perms(S) ==
    { f \in [1..Cardinality(S) -> S] : \A i, j \in DOMAIN f : f[i] = f[j] => i = j }

\* BitCask::list_keys: the keys, in an order the caller cannot rely on
list_keys(cask) == Perms(DOMAIN cask)

\* a join that loses the last key
RECURSIVE joinDropsLast(_)
joinDropsLast(keys) ==
    IF Len(keys) <= 1 THEN <<>>
    ELSE IF Len(keys) = 2 THEN keys[1]
    ELSE keys[1] \o <<" ">> \o joinDropsLast(Tail(keys))

\* [String]::join(" ")
RECURSIVE join(_)
join(keys) ==
    IF keys = <<>> THEN <<>>
    ELSE IF Len(keys) = 1 THEN keys[1]
    ELSE keys[1] \o <<" ">> \o join(Tail(keys))

-----------------------------------------------------------------------------
(* Sessions: one handle_client thread per accepted connection *)

NumSessions == 2
MaxReads == 2

Sessions == 1..NumSessions

Terminated == {"closed", "panic_io", "panic_put", "panic_overflow", "panic_poison"}

RECURSIVE Sum(_, _)
Sum(f, S) ==
    IF S = {} THEN 0
    ELSE LET x == CHOOSE y \in S : TRUE IN f[x] + Sum(f, S \ {x})

\* read_line calls that have returned, over all sessions
TotalReads == Sum(nread, Sessions)

NoSession == 0

LF == <<"\n">>
OK == <<"O","K","\n">>
ERR == <<"E","R","R","\n">>
NIL == <<"N","I","L","\n">>
INV == <<"I","N","V","\n">>
BYE == <<"B","Y","E","\n">>

\* what the clients send; read_line keeps the line terminator
ServerLines ==
    { <<"g","e","t"," ","k">> \o LF,
      <<"s","e","t"," ","k"," ","a">> \o LF,
      <<"s","e","t"," ","k"," ">> \o to_string(IsizeMax) \o LF,
      <<"s","e","t"," ","K"," ","0","7">> \o LF,
      <<"i","n","c","r"," ","k">> \o LF,
      <<"l","i","s","t">> \o LF,
      <<"e","x","i","t">> \o LF,
      <<"m","s","e","t"," ","k"," ","1"," ","K"," ","2">> \o LF,
      <<"b","l","a","h">> \o LF }

CmdKeys(cmd) ==
    IF cmd.type \in {"Get", "Increment"} THEN {cmd.key}
    ELSE IF cmd.type = "Set" THEN {cmd.kv.key}
    ELSE IF cmd.type = "MSet" THEN {cmd.kvs[i].key : i \in DOMAIN cmd.kvs}
    ELSE {}

AllKeys == UNION { CmdKeys(parse_command(l)) : l \in ServerLines }

\* the command of the loop iteration the session is in
Cmd(s) == command[s]

-----------------------------------------------------------------------------
(* The mutex *)

\* a lock that never blocks
CanLockAlways(s) == TRUE

\* Mutex::lock blocks while another thread holds the guard
CanLock(s) == lock = NoSession

\* a guard that outlives its arm
StillLocked(s) == lock

\* dropping the MutexGuard
Unlocked(s) == IF lock = s THEN NoSession ELSE lock

\* a guard dropped while its thread panics poisons the mutex
PoisonedBy(s) == poisoned \/ lock = s

\* the guard as a temporary of the get statement, dropped before the put
ReleasedAfterIncrementGet(s) == NoSession

\* Command::Increment binds the guard to `cask`, which lives to the end of
\* the arm: the session still holds the lock after its get
GuardAfterIncrementGet(s) == s

\* an Exit arm without its break
AfterReplyNoBreak(cmd) == "read"

\* a loop that also gives up on a line it cannot parse
AfterReplyInvalidBreaks(cmd) ==
    IF cmd.type \in {"Exit", "None"} THEN "closed" ELSE "read"

\* Command::Exit breaks out of the loop; every other arm loops to read_line
AfterReply(cmd) == IF cmd.type = "Exit" THEN "closed" ELSE "read"

\* a Get arm answering an absent key with an empty line
GetReplyEmpty(r) == IF r.some THEN r.val \o LF ELSE LF

\* Command::Get: Some(value) => value + "\n", None => "NIL\n"
GetReply(r) == IF r.some THEN r.val \o LF ELSE NIL

\* a Set arm ignoring the result of put
SetReplyAlwaysOk(r) == OK

\* Command::Set: Ok(_) => "OK\n", Err(_) => "ERR\n"
SetReply(r) == IF r.ok THEN OK ELSE ERR

\* an absent counter read as one
UnwrapOrOne(r) == IF r.some THEN r.val ELSE <<"1">>

\* cask.get(&key).unwrap_or("0".to_string())
UnwrapOrZero(r) == IF r.some THEN r.val ELSE <<"0">>

\* no Set acknowledged for the key since its last write
NoValue == <<>>

\* what most steps leave alone: the end-of-file flag and the history
quietVars == <<sawEof, incrPuts, incrSent, setKeys, acked>>

\* the thread ends: `return` after the loop, or a panic unwinding the stack
Ends(s, how) ==
    /\ pc' = [pc EXCEPT ![s] = how]
    /\ command' = [command EXCEPT ![s] = None]
    /\ pending' = [pending EXCEPT ![s] = <<>>]

\* stream.write_all(bytes).unwrap() returning: the reply is on the stream,
\* the arm ends, its guard (if any) is dropped
WriteOk(s, bytes) ==
    /\ out' = [out EXCEPT ![s] = Append(@, bytes)]
    /\ lock' = Unlocked(s)
    /\ poisoned' = poisoned
    /\ IF AfterReply(Cmd(s)) = "closed"
       THEN Ends(s, "closed")
       ELSE /\ pc' = [pc EXCEPT ![s] = "read"]
            /\ command' = [command EXCEPT ![s] = None]
            /\ pending' = [pending EXCEPT ![s] = <<>>]

\* stream.write_all(bytes).unwrap() panicking: the connection is broken
WriteFail(s) ==
    /\ out' = out
    /\ poisoned' = PoisonedBy(s)
    /\ lock' = Unlocked(s)
    /\ Ends(s, "panic_io")

-----------------------------------------------------------------------------
(* handle_client *)

\* read_line returns a line the client sent
ReadLine(s, l) ==
    /\ pc[s] = "read"
    /\ ~sawEof[s]
    /\ TotalReads < MaxReads
    /\ command' = [command EXCEPT ![s] = parse_command(l)]
    /\ nread' = [nread EXCEPT ![s] = @ + 1]
    /\ pc' = [pc EXCEPT ![s] = "dispatch"]
    /\ UNCHANGED <<parserVars, store, lock, poisoned, pending, out,
                   quietVars>>

\* read_line returns Ok(0): the client has closed the connection; buf stays
\* empty and the loop goes on
ReadEof(s) ==
    /\ pc[s] = "read"
    /\ TotalReads < MaxReads
    /\ command' = [command EXCEPT ![s] = parse_command(<<>>)]
    /\ nread' = [nread EXCEPT ![s] = @ + 1]
    /\ sawEof' = [sawEof EXCEPT ![s] = TRUE]
    /\ pc' = [pc EXCEPT ![s] = "dispatch"]
    /\ UNCHANGED <<parserVars, store, lock, poisoned, pending, out,
                   incrPuts, incrSent, setKeys, acked>>

\* read_line returns Err (connection reset, invalid UTF-8): unwrap panics,
\* no guard held
ReadErr(s) ==
    /\ pc[s] = "read"
    /\ Ends(s, "panic_io")
    /\ UNCHANGED <<parserVars, store, lock, poisoned, out, nread,
                   quietVars>>

\* parse_command returned None: write INV
Invalid(s) ==
    /\ pc[s] = "dispatch"
    /\ Cmd(s) = None
    /\ WriteOk(s, INV) \/ WriteFail(s)
    /\ UNCHANGED <<parserVars, store, nread, quietVars>>

\* Command::Exit: write BYE and break
ExitArm(s) ==
    /\ pc[s] = "dispatch"
    /\ Cmd(s) = Exit
    /\ WriteOk(s, BYE) \/ WriteFail(s)
    /\ UNCHANGED <<parserVars, store, nread, quietVars>>

\* Command::MSet: the match has no arm for it; nothing is called or written
MSetArm(s) ==
    /\ pc[s] = "dispatch"
    /\ Cmd(s).type = "MSet"
    /\ pc' = [pc EXCEPT ![s] = "read"]
    /\ command' = [command EXCEPT ![s] = None]
    /\ UNCHANGED <<parserVars, store, lock, poisoned, pending, out, nread, quietVars>>

\* bitcask.lock().unwrap() on a poisoned mutex: the session panics; the guard
\* inside the PoisonError is dropped with it
LockPoisoned(s) ==
    /\ pc[s] = "dispatch"
    /\ Cmd(s).type \in {"Get", "Set", "List", "Increment"}
    /\ CanLock(s)
    /\ poisoned
    /\ Ends(s, "panic_poison")
    /\ UNCHANGED <<parserVars, store, lock, poisoned, out, nread,
                   quietVars>>

\* Command::Get: lock, get; the guard lives until the match on its result ends
GetArm(s) ==
    /\ pc[s] = "dispatch"
    /\ Cmd(s).type = "Get"
    /\ CanLock(s)
    /\ ~poisoned
    /\ lock' = s
    /\ LET r == get(store, Cmd(s).key) IN
       pending' = [pending EXCEPT ![s] = GetReply(r)]
    /\ pc' = [pc EXCEPT ![s] = "reply"]
    /\ UNCHANGED <<parserVars, store, poisoned, command, out, nread,
                   quietVars>>

\* Command::Set: lock, put; the guard lives until the match on its result ends
SetArm(s) ==
    /\ pc[s] = "dispatch"
    /\ Cmd(s).type = "Set"
    /\ CanLock(s)
    /\ ~poisoned
    /\ lock' = s
    /\ \/ /\ store' = put(store, Cmd(s).kv.key, Cmd(s).kv.value)
          /\ setKeys' = setKeys \cup {Cmd(s).kv.key}
          /\ acked' = [acked EXCEPT ![Cmd(s).kv.key] = NoValue]
          /\ pending' = [pending EXCEPT ![s] = SetReply([ok |-> TRUE])]
       \/ /\ store' = store
          /\ setKeys' = setKeys
          /\ acked' = acked
          /\ pending' = [pending EXCEPT ![s] = SetReply([ok |-> FALSE])]
    /\ pc' = [pc EXCEPT ![s] = "reply"]
    /\ UNCHANGED <<parserVars, poisoned, command, out, nread,
                   sawEof, incrPuts, incrSent>>

\* Command::List: lock, list_keys, join; the guard is dropped at the end of
\* the let statement, before the write
ListArm(s) ==
    /\ pc[s] = "dispatch"
    /\ Cmd(s) = List
    /\ CanLock(s)
    /\ ~poisoned
    /\ \E keys \in list_keys(store) :
          pending' = [pending EXCEPT ![s] = join(keys) \o LF]
    /\ pc' = [pc EXCEPT ![s] = "reply"]
    /\ UNCHANGED <<parserVars, store, lock, poisoned, command, out, nread, quietVars>>

\* Command::Increment, lines 61-65: lock, get, parse, add one
IncrementGet(s) ==
    /\ pc[s] = "dispatch"
    /\ Cmd(s).type = "Increment"
    /\ CanLock(s)
    /\ ~poisoned
    /\ LET r == get(store, Cmd(s).key)
           value == UnwrapOrZero(r)
           current_value == parse_isize(value)
       IN  IF ~current_value.ok
           THEN \* the else branch: ERR is written with the guard still held
                /\ lock' = GuardAfterIncrementGet(s)
                /\ poisoned' = poisoned
                /\ pending' = [pending EXCEPT ![s] = ERR]
                /\ pc' = [pc EXCEPT ![s] = "reply"]
                /\ command' = command
           ELSE IF current_value.val + 1 > IsizeMax
           THEN \* current_value + 1 overflows: a build with overflow checks
                \* panics with the guard held, one without wraps around
                \/ /\ lock' = lock
                   /\ poisoned' = TRUE
                   /\ Ends(s, "panic_overflow")
                \/ /\ lock' = GuardAfterIncrementGet(s)
                   /\ poisoned' = poisoned
                   /\ pending' = [pending EXCEPT ![s] = to_string(IsizeMin)]
                   /\ pc' = [pc EXCEPT ![s] = "incr_put"]
                   /\ command' = command
           ELSE /\ lock' = GuardAfterIncrementGet(s)
                /\ poisoned' = poisoned
                /\ pending' = [pending EXCEPT ![s] = to_string(current_value.val + 1)]
                /\ pc' = [pc EXCEPT ![s] = "incr_put"]
                /\ command' = command
    /\ UNCHANGED <<parserVars, store, out, nread, quietVars>>

\* Command::Increment, line 66: cask.put(&key, &new_value).unwrap()
IncrementPut(s) ==
    /\ pc[s] = "incr_put"
    /\ \/ /\ store' = put(store, Cmd(s).key, pending[s])
          /\ incrPuts' = [incrPuts EXCEPT ![Cmd(s).key] = Append(@, pending[s])]
          /\ acked' = [acked EXCEPT ![Cmd(s).key] = NoValue]
          /\ pending' = [pending EXCEPT ![s] = @ \o LF]
          /\ pc' = [pc EXCEPT ![s] = "reply"]
          /\ UNCHANGED <<lock, poisoned, command>>
       \/ /\ store' = store
          /\ incrPuts' = incrPuts
          /\ acked' = acked
          /\ poisoned' = PoisonedBy(s)
          /\ lock' = Unlocked(s)
          /\ Ends(s, "panic_put")
    /\ UNCHANGED <<parserVars, out, nread, sawEof, incrSent, setKeys>>

\* the write_all that ends the Get, Set, List and Increment arms
Reply(s) ==
    /\ pc[s] = "reply"
    /\ \/ /\ WriteOk(s, pending[s])
          /\ incrSent' =
                IF Cmd(s).type = "Increment" /\ pending[s] # ERR
                THEN [incrSent EXCEPT ![Cmd(s).key] =
                        Append(@, Take(pending[s], Len(pending[s]) - 1))]
                ELSE incrSent
          /\ acked' =
                IF Cmd(s).type = "Set" /\ pending[s] = OK
                THEN [acked EXCEPT ![Cmd(s).kv.key] = Cmd(s).kv.value]
                ELSE acked
       \/ /\ WriteFail(s)
          /\ incrSent' = incrSent
          /\ acked' = acked
    /\ UNCHANGED <<parserVars, store, nread, sawEof, incrPuts, setKeys>>

-----------------------------------------------------------------------------
(* The server *)

ServerInit ==
    /\ store = <<>>
    /\ lock = NoSession
    /\ poisoned = FALSE
    /\ pc = [s \in Sessions |-> "read"]
    /\ command = [s \in Sessions |-> None]
    /\ pending = [s \in Sessions |-> <<>>]
    /\ out = [s \in Sessions |-> <<>>]
    /\ nread = [s \in Sessions |-> 0]
    /\ sawEof = [s \in Sessions |-> FALSE]
    /\ incrPuts = [k \in AllKeys |-> <<>>]
    /\ incrSent = [k \in AllKeys |-> <<>>]
    /\ setKeys = {}
    /\ acked = [k \in AllKeys |-> NoValue]

Init ==
    /\ line = <<>>
    /\ result = Unparsed
    /\ ServerInit

Next ==
    \E s \in Sessions :
        \/ \E l \in ServerLines : ReadLine(s, l)
        \/ ReadEof(s)
        \/ ReadErr(s)
        \/ Invalid(s)
        \/ ExitArm(s)
        \/ MSetArm(s)
        \/ LockPoisoned(s)
        \/ GetArm(s)
        \/ SetArm(s)
        \/ ListArm(s)
        \/ IncrementGet(s)
        \/ IncrementPut(s)
        \/ Reply(s)

Spec == Init /\ [][Next]_vars

\* the parser alone, on every line of ParseLines
ParseInit ==
    /\ line \in ParseLines
    /\ result = Unparsed
    /\ ServerInit

ParseNext == Parse

ParseSpec == ParseInit /\ [][ParseNext]_vars

-----------------------------------------------------------------------------
(* The grammar of the command language, as the specification words it:      *)
(* a line is its tokens, separated by single spaces.                        *)

Let(v, F(_)) == CHOOSE y \in { F(x) : x \in {v} } : TRUE

FirstSpace(str) ==
    IF \E i \in DOMAIN str : str[i] = " "
    THEN CHOOSE i \in DOMAIN str : str[i] = " " /\ \A j \in 1..(i - 1) : str[j] # " "
    ELSE 0

RECURSIVE Split(_)
Split(str) ==
    Let(str, LAMBDA s :
    Let(FirstSpace(s), LAMBDA i :
    IF i = 0 THEN <<s>> ELSE <<Take(s, i - 1)>> \o Split(Drop(s, i))))

Lowered(str) == [i \in DOMAIN str |-> to_lowercase(str[i])]

IsToken(t) == t # <<>> /\ \A i \in DOMAIN t : is_alphanum(t[i])

\* the Command the grammar gives a whole line, None when it has no form
GrammarCommand(str) ==
    Let(Split(str), LAMBDA toks :
    Let(Lowered(toks[1]), LAMBDA kw :
    Let(Tail(toks), LAMBDA args :
    IF \E i \in DOMAIN args : ~IsToken(args[i]) THEN None
    ELSE IF kw = <<"g","e","t">> /\ Len(args) = 1 THEN Get(args[1])
    ELSE IF kw = <<"s","e","t">> /\ Len(args) = 2
         THEN Set(KeyValue(args[1], args[2]))
    ELSE IF kw = <<"m","s","e","t">> /\ Len(args) >= 2 /\ Len(args) % 2 = 0
         THEN MSet([i \in 1..(Len(args) \div 2) |->
                        KeyValue(args[2 * i - 1], args[2 * i])])
    ELSE IF kw = <<"i","n","c","r">> /\ Len(args) = 1 THEN Increment(args[1])
    ELSE IF kw = <<"l","i","s","t">> /\ Len(args) = 0 THEN List
    ELSE IF kw = <<"e","x","i","t">> /\ Len(args) = 0 THEN Exit
    ELSE None)))

\* the line with its first token (the keyword) in lower case
LowerKeyword(str) ==
    Let(FirstSpace(str), LAMBDA i :
    IF i = 0 THEN Lowered(str)
    ELSE Lowered(Take(str, i - 1)) \o Drop(str, i - 1))

\* the arguments of a command as they stand in a line
ArgText(cmd) ==
    IF cmd.type \in {"Get", "Increment"} THEN cmd.key
    ELSE IF cmd.type = "Set" THEN cmd.kv.key \o <<" ">> \o cmd.kv.value
    ELSE IF cmd.type = "MSet"
         THEN join([i \in DOMAIN cmd.kvs |->
                        cmd.kvs[i].key \o <<" ">> \o cmd.kvs[i].value])
    ELSE <<>>

HasUpper(str) == \E i \in DOMAIN str : str[i] \in Range(UpperSeq)

Parsed == result # Unparsed

-----------------------------------------------------------------------------
(* Claims about parse_command, under ParseSpec *)

\* C6: a line that matches one of the six forms as a whole parses to that
\* form's Command, and a line that matches none of them parses to None.
C6_ParseIsGrammar == Parsed => result = GrammarCommand(line)

\* C7: a line with leading or trailing whitespace, or with any character
\* outside the grammar (a line terminator, punctuation), parses to None.
C7_OutsideGrammarRejected ==
    (Parsed /\ line # <<>>
       /\ \/ line[1] = " "
          \/ line[Len(line)] = " "
          \/ \E i \in DOMAIN line : ~is_alphanum(line[i]) /\ line[i] # " ")
    => result = None

\* C8: an mset line of well-formed tokens is accepted only with an even
\* number, at least 2, of argument tokens; with an odd number or none it is
\* rejected.
C8_MSetNeedsPairs ==
    (Parsed /\ Lowered(Split(line)[1]) = <<"m","s","e","t">>
       /\ \A i \in DOMAIN Split(line) : IsToken(Split(line)[i]))
    => LET n == Len(Split(line)) - 1
       IN  IF n >= 2 /\ n % 2 = 0 THEN result.type = "MSet" ELSE result = None

\* C9: the keyword matches in any case and the arguments keep theirs: a line
\* parses to what the same line with its keyword in lower case parses to,
\* and the key and value tokens returned are the text of the line after the
\* keyword, unchanged.
C9_KeywordCaseInsensitive ==
    Parsed =>
        /\ result = parse_command(LowerKeyword(line))
        /\ result.type \in {"Get", "Set", "MSet", "Increment"} =>
              LET after == Drop(line, FirstSpace(line))
              IN  Take(after, Len(ArgText(result))) = ArgText(result)

\* C9's case: a keyword in mixed case and an upper-case key, parsed
C9_Witness ==
    /\ Parsed
    /\ result.type = "Set"
    /\ LowerKeyword(line) # line
    /\ HasUpper(result.kv.key)

-----------------------------------------------------------------------------
(* Claims about the sessions, under Spec *)

NeedsLock(cmd) == cmd.type \in {"Get", "Set", "List", "Increment"}

\* the session is inside an arm's critical section: between a store call
\* made under its guard and the end of the arm
HoldsGuard(s) ==
    \/ pc[s] = "incr_put"
    \/ pc[s] = "reply" /\ command[s].type \in {"Get", "Set", "Increment"}

OneToN(n) == [i \in 1..n |-> to_string(i)]

\* C1: for a key that starts absent and is written by Increment only, the
\* values put are 1, 2, ..., N in this order, the key holds N, and the
\* replies sent are those same values, each once and in order, the reply to
\* the latest put being the only one that may still be missing.
C1_IncrementAtomic ==
    \A k \in AllKeys :
        k \notin setKeys =>
            LET n == Len(incrPuts[k]) IN
            /\ incrPuts[k] = OneToN(n)
            /\ IF n = 0 THEN k \notin DOMAIN store
               ELSE k \in DOMAIN store /\ store[k] = to_string(n)
            /\ Len(incrSent[k]) \in {n - 1, n}
            /\ incrSent[k] = OneToN(Len(incrSent[k]))

\* C1's case: two sessions have incremented the same absent key; one was
\* told 1, the other 2
C1_Witness ==
    \E s, t \in Sessions, k \in AllKeys :
        /\ s # t
        /\ k \notin setKeys
        /\ out[s] = <<to_string(1) \o LF>>
        /\ out[t] = <<to_string(2) \o LF>>
        /\ incrSent[k] = OneToN(2)
        /\ store[k] = to_string(2)

C2_OneHolder ==
    \A s, t \in Sessions :
        /\ HoldsGuard(s) => lock = s
        /\ HoldsGuard(s) /\ HoldsGuard(t) => s = t

C2_WaitersWait ==
    \A s \in Sessions :
        (pc[s] = "dispatch" /\ NeedsLock(command[s]) /\ lock # NoSession)
        => pc'[s] = pc[s] /\ command'[s] = command[s] /\ out'[s] = out[s]

\* C2: at most one session is inside a store critical section, and a session
\* whose command needs the store does not move while another holds the lock.
C2_MutualExclusion == []C2_OneHolder /\ [][C2_WaitersWait]_vars

\* C2's case: one session holds the guard while another waits for it
C2_Witness ==
    \E s, t \in Sessions :
        /\ s # t
        /\ HoldsGuard(s)
        /\ lock = s
        /\ pc[t] = "dispatch"
        /\ NeedsLock(command[t])

\* C3: a failure in one session (failed read, failed reply write, failed
\* put) leaves the lock released and no other session ends because of it:
\* no session dies acquiring the lock.
C3_FailureIsolated ==
    \A s \in Sessions :
        /\ pc[s] \in {"panic_io", "panic_put", "panic_overflow"} => lock # s
        /\ pc[s] # "panic_poison"

\* C4: a session whose read found the stream closed never waits in
\* read_line again.
C4_EofCloses == \A s \in Sessions : sawEof[s] => pc[s] # "read"

\* C5: a session that reads its next line, or has closed after Exit, has
\* written one reply for each line it read.
C5_OneReplyPerLine ==
    \A s \in Sessions :
        (~sawEof[s] /\ pc[s] \in {"read", "closed"}) => Len(out[s]) = nread[s]

C10_ExitStep ==
    \A s \in Sessions :
        (pc[s] = "dispatch" /\ command[s] = Exit /\ pc'[s] # pc[s]) =>
            \/ pc'[s] = "closed" /\ out'[s] = Append(out[s], BYE)
            \/ pc'[s] = "panic_io" /\ out'[s] = out[s]

C10_EndedStaysEnded ==
    \A s \in Sessions :
        pc[s] \in Terminated =>
            pc'[s] = pc[s] /\ out'[s] = out[s] /\ nread'[s] = nread[s]

\* C10: the step a session takes on an Exit command writes BYE and nothing
\* else and ends the session (a BYE that cannot be written because the
\* connection is broken ends it too), and an ended session never writes or
\* reads again.
C10_ExitEnds == [][C10_ExitStep /\ C10_EndedStaysEnded]_vars

\* C10's case: a session has closed after an Exit, BYE being the last thing
\* it wrote
C10_Witness ==
    \E s \in Sessions :
        /\ pc[s] = "closed"
        /\ out[s] # <<>>
        /\ out[s][Len(out[s])] = BYE

C11_InvalidStep ==
    \A s \in Sessions :
        (pc[s] = "dispatch" /\ command[s] = None /\ pc'[s] # pc[s]) =>
            /\ store' = store
            /\ lock' = lock
            /\ \/ pc'[s] = "read" /\ out'[s] = Append(out[s], INV)
               \/ pc'[s] = "panic_io" /\ out'[s] = out[s]

\* C11: the step a session takes on a line parse_command finds no command
\* in leaves the store and the lock as they are, writes INV and nothing
\* else, and returns the session to its read (only an INV that cannot be
\* written because the connection is broken ends the session).
C11_InvalidKeepsSession == [][C11_InvalidStep]_vars

\* C11's case: with a key in the store, a session was told INV for the one
\* line it sent and waits for its next line
C11_Witness ==
    \E s \in Sessions :
        /\ pc[s] = "read"
        /\ ~sawEof[s]
        /\ nread[s] = 1
        /\ out[s] = <<INV>>
        /\ store # <<>>

\* C12: a Get of a key whose last write is a Set acknowledged with OK
\* replies the value of that Set.
C12_ReadYourWrite ==
    \A s \in Sessions :
        (pc[s] = "reply" /\ command[s].type = "Get"
            /\ acked[command[s].key] # NoValue)
        => pending[s] = acked[command[s].key] \o LF

\* C12's case: a session set a key, was told OK, then got the key and was
\* told the value it had set
C12_Witness ==
    \E s \in Sessions, k \in AllKeys :
        /\ pc[s] = "read"
        /\ acked[k] # NoValue
        /\ out[s] = <<OK, acked[k] \o LF>>

\* the keys a Set or an Increment has put
WrittenKeys == setKeys \cup {k \in AllKeys : incrPuts[k] # <<>>}

\* the counter a key stands for: 0 when absent
IsCount(k, n) ==
    IF k \in DOMAIN store THEN store[k] = to_string(n) ELSE n = 0

C13_AbsentIsZero ==
    \A s \in Sessions :
        (pc[s] = "dispatch" /\ command[s].type = "Increment"
            /\ command[s].key \notin DOMAIN store /\ pc'[s] # pc[s])
        => \/ pc'[s] = "incr_put" /\ pending'[s] = to_string(1)
           \/ poisoned /\ pc'[s] = "panic_poison"

C13_PutIsNext ==
    \A s \in Sessions : \A n \in 0..(IsizeMax - 1) :
        (pc[s] = "incr_put" /\ pc'[s] = "reply" /\ IsCount(command[s].key, n))
        => /\ command[s].key \in DOMAIN store'
           /\ store'[command[s].key] = to_string(n + 1)
           /\ pending'[s] = to_string(n + 1) \o LF

C13_ReplyIsStored ==
    \A s \in Sessions :
        (pc[s] = "reply" /\ command[s].type = "Increment"
            /\ pending[s] # ERR /\ pc'[s] = "read")
        => /\ store' = store
           /\ out'[s] = Append(out[s], store[command[s].key] \o LF)

\* C13: an Increment of an absent key puts 1; an Increment of a key holding
\* the counter n below the largest integer puts n + 1; and the reply an
\* Increment writes is the value the key holds at that moment. Increments
\* issued one after another on an absent key therefore reply 1, 2, ..., N.
C13_SerialIncrement ==
    [][C13_AbsentIsZero /\ C13_PutIsNext /\ C13_ReplyIsStored]_vars

\* C13's case: one session alone incremented an absent key twice and was
\* told 1, then 2; the key holds 2
C13_Witness ==
    \E s \in Sessions, k \in AllKeys :
        /\ \A t \in Sessions \ {s} : nread[t] = 0
        /\ k \notin setKeys
        /\ out[s] = <<to_string(1) \o LF, to_string(2) \o LF>>
        /\ store[k] = to_string(2)

\* the keys a List reply names, and whether it names each once
ListedKeys(reply) ==
    IF reply = LF THEN {}
    ELSE Range(Split(Take(reply, Len(reply) - 1)))

ListedOnce(reply) ==
    IF reply = LF THEN TRUE
    ELSE LET ks == Split(Take(reply, Len(reply) - 1))
         IN  \A i, j \in DOMAIN ks : ks[i] = ks[j] => i = j

C14_ListStep ==
    \A s \in Sessions :
        (pc[s] = "dispatch" /\ command[s] = List /\ pc'[s] = "reply") =>
            /\ store' = store
            /\ pending'[s] # <<>>
            /\ pending'[s][Len(pending'[s])] = "\n"
            /\ ListedKeys(pending'[s]) = WrittenKeys
            /\ ListedOnce(pending'[s])

C14_ListReplyStep ==
    \A s \in Sessions :
        (pc[s] = "reply" /\ command[s] = List /\ pc'[s] = "read") =>
            out'[s] = Append(out[s], pending[s])

C15_MSetDispatched ==
    [][\A s \in Sessions :
        (pc[s] = "dispatch" /\ command[s].type = "MSet" /\ pc'[s] = "read") =>
            /\ Len(out'[s]) = Len(out[s]) + 1
            /\ \A i \in DOMAIN command[s].kvs :
                  (\A j \in DOMAIN command[s].kvs :
                      j > i => command[s].kvs[j].key # command[s].kvs[i].key)
                  => /\ command[s].kvs[i].key \in DOMAIN store'
                     /\ store'[command[s].kvs[i].key] = command[s].kvs[i].value
      ]_vars

\* text that is a base-10 integer: an optional sign, then digits
IsDecimal(v) ==
    LET ds == IF v # <<>> /\ v[1] \in {"+", "-"} THEN Tail(v) ELSE v
    IN  ds # <<>> /\ \A i \in DOMAIN ds : ds[i] \in Range(DigitSeq)

C16_GetStep ==
    \A s \in Sessions :
        (pc[s] = "dispatch" /\ command[s].type = "Increment"
            /\ command[s].key \in DOMAIN store
            /\ ~IsDecimal(store[command[s].key]) /\ pc'[s] # pc[s])
        => /\ store' = store
           /\ \/ pc'[s] = "reply" /\ pending'[s] = ERR
              \/ poisoned /\ pc'[s] = "panic_poison"

C16_ReplyStep ==
    \A s \in Sessions :
        (pc[s] = "reply" /\ command[s].type = "Increment"
            /\ pending[s] = ERR /\ pc'[s] # pc[s])
        => /\ store' = store
           /\ lock' = NoSession
           /\ \/ pc'[s] = "read" /\ out'[s] = Append(out[s], ERR)
              \/ pc'[s] = "panic_io" /\ out'[s] = out[s]

\* C16: an Increment of a key whose value is no base-10 integer leaves the
\* store as it is and writes ERR and nothing else; with that write the lock
\* is released and the session returns to its read (only an ERR that cannot
\* be written because the connection is broken ends the session).
C16_IncrementNonInteger == [][C16_GetStep /\ C16_ReplyStep]_vars

\* C16's case: an Increment found a value that is no integer and is about
\* to reply ERR
C16_Witness ==
    \E s \in Sessions :
        /\ pc[s] = "reply"
        /\ command[s].type = "Increment"
        /\ command[s].key \in DOMAIN store
        /\ ~IsDecimal(store[command[s].key])
        /\ pending[s] = ERR
        /\ lock = s

\* C17: no session ends because a put returned an error.
C17_PutFailureRecoverable == \A s \in Sessions : pc[s] # "panic_put"

\* C18: no session ends on an Increment that overflows, and an Increment of
\* a key holding the largest integer puts nothing but that largest integer.
C18_NoOverflowPanic ==
    \A s \in Sessions :
        /\ pc[s] # "panic_overflow"
        /\ (pc[s] = "incr_put" /\ command[s].key \in DOMAIN store
                /\ store[command[s].key] = to_string(IsizeMax))
           => pending[s] = to_string(IsizeMax)

C19_GetStep ==
    \A s \in Sessions :
        (pc[s] = "dispatch" /\ command[s].type = "Get"
            /\ command[s].key \notin WrittenKeys /\ pc'[s] # pc[s])
        => /\ store' = store
           /\ \/ pc'[s] = "reply" /\ pending'[s] = NIL
              \/ poisoned /\ pc'[s] = "panic_poison"

C19_ReplyStep ==
    \A s \in Sessions :
        (pc[s] = "reply" /\ command[s].type = "Get"
            /\ command[s].key \notin WrittenKeys /\ pc'[s] # pc[s])
        => /\ store' = store
           /\ \/ pc'[s] = "read" /\ out'[s] = Append(out[s], NIL)
              \/ pc'[s] = "panic_io" /\ out'[s] = out[s]

\* C19: a Get of a key no Set and no Increment has put leaves the store as
\* it is, writes NIL and nothing else, and returns the session to its read
\* (only a NIL that cannot be written because the connection is broken ends
\* the session).
C19_GetAbsent == [][C19_GetStep /\ C19_ReplyStep]_vars

\* C19's case: with another key in the store, a session got a key never
\* written, was told NIL and waits for its next line
C19_Witness ==
    \E s \in Sessions, k \in AllKeys :
        /\ pc[s] = "read"
        /\ ~sawEof[s]
        /\ k \notin WrittenKeys
        /\ WrittenKeys # {}
        /\ out[s] = <<NIL>>

\* C20: a session waiting in read_line does not hold the store lock.
C20_NoLockWhileReading == \A s \in Sessions : pc[s] = "read" => lock # s

\* C20's case: a session has finished a Set and waits for its next line
\* while another session holds the lock
C20_Witness ==
    \E s, t \in Sessions :
        /\ s # t
        /\ pc[s] = "read"
        /\ out[s] = <<OK>>
        /\ lock = t

====
